---- MODULE Spec2Model ----
(***************************************************************************)
(* Incremental knowledge-graph writer of backend/kg_creator.py.            *)
(*                                                                         *)
(* The graph store is a property graph: node labels Topic, Comment, Reply, *)
(* Argument, ArgumentGroup are bags of property records (a bag, because    *)
(* the store itself does not forbid two nodes with the same properties;    *)
(* only MERGE keeps them apart), relationships are sets of records naming  *)
(* the natural keys of their end points.                                   *)
(*                                                                         *)
(* Strings that the code parses or concatenates (ids, model responses,     *)
(* argument texts, summaries) are sequences of tokens; a token is an       *)
(* atomic piece of text.  " " is the whitespace token, "-" the bullet,     *)
(* "Group:" the group marker.  Opaque strings (url, title, body, author)   *)
(* are plain strings.                                                      *)
(***************************************************************************)
EXTENDS Integers, Sequences, FiniteSets, Bags, TLC

VARIABLES
    driver,   \* kg_creator.driver: TRUE when the startup connection succeeded
    graph,    \* the contents of the graph store
    last,     \* the call that ran last: its arguments, result and call log
    minted,   \* history: url -> the discussion_id first stored for it
    written,  \* history: the Comment and Reply nodes every call wrote
    nops      \* number of calls made so far

vars == <<driver, graph, last, minted, written, nops>>

-----------------------------------------------------------------------------
(* Bounds *)

MaxOps == 2        \* calls per behaviour
MaxUnits == 2      \* comments plus replies in one thread tree
MaxLines == 3      \* lines of a response of the grouping service

-----------------------------------------------------------------------------
(* Token strings *)

None == "None"

IsSpace(t) == t = " "

RECURSIVE LStrip(_)
LStrip(s) ==
    IF s # <<>> /\ IsSpace(Head(s)) THEN LStrip(Tail(s)) ELSE s

RECURSIVE RStrip(_)
RStrip(s) ==
    IF s # <<>> /\ IsSpace(s[Len(s)]) THEN RStrip(SubSeq(s, 1, Len(s) - 1)) ELSE s

\* str.strip()
Strip(s) == RStrip(LStrip(s))

\* str.lstrip("-")
RECURSIVE LStripDash(_)
LStripDash(s) ==
    IF s # <<>> /\ Head(s) = "-" THEN LStripDash(Tail(s)) ELSE s

\* str.startswith(tok) for a one-token prefix
StartsWith(s, tok) == s # <<>> /\ Head(s) = tok

\* str.replace(tok, "")
RemoveToken(s, tok) == SelectSeq(s, LAMBDA t : t # tok)

\* line.split(" ", 1)[-1]
RECURSIVE AfterFirstSpace(_)
AfterFirstSpace(s) ==
    IF \A k \in 1..Len(s) : s[k] # " " THEN s
    ELSE IF Head(s) = " " THEN Tail(s)
    ELSE AfterFirstSpace(Tail(s))

\* str.upper() on the tokens the classifier is seen to return
Upper(t) ==
    CASE t = "for" -> "FOR"
      [] t = "against" -> "AGAINST"
      [] t = "neutral" -> "NEUTRAL"
      [] t = "maybe" -> "MAYBE"
      [] OTHER -> t

UpperStr(s) == [k \in 1..Len(s) |-> Upper(s[k])]

\* str(i) of a Python index; i is the 1-based position in the model
IndexStr(i) == ToString(i - 1)

\* content.strip().split("\n") / .splitlines(): blank lines at both ends go,
\* the first line loses its leading and the last its trailing whitespace
RECURSIVE DropBlankHead(_)
DropBlankHead(lines) ==
    IF lines # <<>> /\ Strip(Head(lines)) = <<>> THEN DropBlankHead(Tail(lines))
    ELSE lines

RECURSIVE DropBlankTail(_)
DropBlankTail(lines) ==
    IF lines # <<>> /\ Strip(lines[Len(lines)]) = <<>>
    THEN DropBlankTail(SubSeq(lines, 1, Len(lines) - 1))
    ELSE lines

StripContent(lines) ==
    LET body == DropBlankTail(DropBlankHead(lines))
    IN  [k \in 1..Len(body) |->
            LET l == IF k = 1 THEN LStrip(body[k]) ELSE body[k]
            IN  IF k = Len(body) THEN RStrip(l) ELSE l]

-----------------------------------------------------------------------------
(* Stances *)

StanceOrder == <<"FOR", "AGAINST", "NEUTRAL">>

Stances == {"FOR", "AGAINST", "NEUTRAL"}

STANCE_MAP == [s \in Stances |->
    CASE s = "FOR" -> "SUPPORTS"
      [] s = "AGAINST" -> "OPPOSES"
      [] s = "NEUTRAL" -> "NEUTRAL"]

-----------------------------------------------------------------------------
(* The graph store and the Cypher helpers *)

EmptyGraph ==
    [topics |-> EmptyBag, comments |-> EmptyBag, replies |-> EmptyBag,
     arguments |-> EmptyBag, groups |-> EmptyBag,
     stance_edges |-> {}, reply_to |-> {}, extracted_from |-> {}, has_group |-> {}]

RECURSIVE CopiesOf(_, _)
CopiesOf(b, S) ==
    IF S = {} THEN 0
    ELSE LET r == CHOOSE x \in S : TRUE
         IN  b[r] + CopiesOf(b, S \ {r})

\* MERGE (n {key}) SET n.fields = ...: every node matching the key takes the
\* new properties; when none matches one node is created
\* hit: the nodes of b the key matches
Merge(b, hit, new) ==
    LET keep == BagToSet(b) \ hit
    IN  IF hit = {} THEN b (+) SetToBag({new})
        ELSE [r \in keep \cup {new} |-> IF r = new THEN CopiesOf(b, hit) ELSE b[r]]

\* DELETE of every node matching
DeleteNodes(b, gone) ==
    [r \in BagToSet(b) \ gone |-> b[r]]

check_existing_discussion_by_url(g, url) ==
    LET hit == {t \in BagToSet(g.topics) : t.url = url}
    IN  IF hit = {} THEN None ELSE (CHOOSE t \in hit : TRUE).discussion_id

\* faulty variant: the existence check never finds the comment
check_comment_exists_never(g, comment_id, discussion_id) == FALSE

check_comment_exists(g, comment_id, discussion_id) ==
    \E c \in BagToSet(g.comments) : c.id = comment_id /\ c.discussion_id = discussion_id

check_reply_exists(g, reply_id, discussion_id) ==
    \E r \in BagToSet(g.replies) : r.id = reply_id /\ r.discussion_id = discussion_id

merge_topic(g, title, discussion_id, url) ==
    [g EXCEPT !.topics =
        Merge(@, {t \in BagToSet(@) : t.url = url},
              [url |-> url, title |-> title, discussion_id |-> discussion_id])]

\* faulty variant: the fields are set only when the node is created
merge_comment_on_create(g, comment) ==
    IF \E c \in BagToSet(g.comments) :
          c.id = comment.id /\ c.discussion_id = comment.discussion_id
    THEN g
    ELSE [g EXCEPT !.comments = @ (+) SetToBag({
            [id |-> comment.id, discussion_id |-> comment.discussion_id,
             body |-> comment.body, author |-> comment.author,
             score |-> comment.score]})]

merge_comment(g, comment) ==
    [g EXCEPT !.comments =
        Merge(@, {c \in BagToSet(@) : c.id = comment.id /\ c.discussion_id = comment.discussion_id},
              [id |-> comment.id, discussion_id |-> comment.discussion_id,
               body |-> comment.body, author |-> comment.author, score |-> comment.score])]

\* faulty variant: the MATCH on the comment leaves out its id
connect_comment_to_topic_any(g, comment_id, topic_title, stance, discussion_id) ==
    LET relationship == STANCE_MAP[stance]
        ts == {t \in BagToSet(g.topics) :
                  t.title = topic_title /\ t.discussion_id = discussion_id}
        cs == {c \in BagToSet(g.comments) : c.discussion_id = discussion_id}
    IN  [g EXCEPT !.stance_edges = @ \cup
            {[label |-> "Comment", id |-> c.id, discussion_id |-> c.discussion_id,
              rel |-> relationship, url |-> t.url] : c \in cs, t \in ts}]

connect_comment_to_topic(g, comment_id, topic_title, stance, discussion_id) ==
    LET relationship == STANCE_MAP[stance]
        ts == {t \in BagToSet(g.topics) :
                  t.title = topic_title /\ t.discussion_id = discussion_id}
        cs == {c \in BagToSet(g.comments) :
                  c.id = comment_id /\ c.discussion_id = discussion_id}
    IN  [g EXCEPT !.stance_edges = @ \cup
            {[label |-> "Comment", id |-> c.id, discussion_id |-> c.discussion_id,
              rel |-> relationship, url |-> t.url] : c \in cs, t \in ts}]

\* faulty variant: CREATE in place of MERGE
merge_reply_create(g, reply) ==
    [g EXCEPT !.replies = @ (+) SetToBag({
        [id |-> reply.id, discussion_id |-> reply.discussion_id,
         body |-> reply.body, author |-> reply.author, score |-> reply.score,
         parent_comment_id |-> reply.parent_comment_id]})]

merge_reply(g, reply) ==
    [g EXCEPT !.replies =
        Merge(@, {r \in BagToSet(@) : r.id = reply.id /\ r.discussion_id = reply.discussion_id},
              [id |-> reply.id, discussion_id |-> reply.discussion_id,
               body |-> reply.body, author |-> reply.author, score |-> reply.score,
               parent_comment_id |-> reply.parent_comment_id])]

\* faulty variant: the MATCH on the comment leaves out its id
connect_reply_to_comment_any(g, reply_id, comment_id, discussion_id) ==
    LET rs == {r \in BagToSet(g.replies) :
                  r.id = reply_id /\ r.discussion_id = discussion_id}
        cs == {c \in BagToSet(g.comments) : c.discussion_id = discussion_id}
    IN  [g EXCEPT !.reply_to = @ \cup
            {[id |-> r.id, discussion_id |-> r.discussion_id, comment_id |-> c.id]
                : r \in rs, c \in cs}]

connect_reply_to_comment(g, reply_id, comment_id, discussion_id) ==
    LET rs == {r \in BagToSet(g.replies) :
                  r.id = reply_id /\ r.discussion_id = discussion_id}
        cs == {c \in BagToSet(g.comments) :
                  c.id = comment_id /\ c.discussion_id = discussion_id}
    IN  [g EXCEPT !.reply_to = @ \cup
            {[id |-> r.id, discussion_id |-> r.discussion_id, comment_id |-> c.id]
                : r \in rs, c \in cs}]

\* faulty variant: the stance is set only when the node is created
merge_argument_on_create(g, text, stance, discussion_id) ==
    IF \E a \in BagToSet(g.arguments) : a.text = text /\ a.discussion_id = discussion_id
    THEN g
    ELSE [g EXCEPT !.arguments = @ (+) SetToBag({
            [text |-> text, discussion_id |-> discussion_id, stance |-> stance]})]

merge_argument(g, text, stance, discussion_id) ==
    [g EXCEPT !.arguments =
        Merge(@, {a \in BagToSet(@) : a.text = text /\ a.discussion_id = discussion_id},
              [text |-> text, discussion_id |-> discussion_id, stance |-> stance])]

connect_argument_to_comment(g, text, comment_id, discussion_id) ==
    LET as == {a \in BagToSet(g.arguments) :
                  a.text = text /\ a.discussion_id = discussion_id}
        cs == {c \in BagToSet(g.comments) :
                  c.id = comment_id /\ c.discussion_id = discussion_id}
    IN  [g EXCEPT !.extracted_from = @ \cup
            {[text |-> a.text, discussion_id |-> a.discussion_id,
              label |-> "Comment", id |-> c.id] : a \in as, c \in cs}]

connect_argument_to_reply(g, text, reply_id, discussion_id) ==
    LET as == {a \in BagToSet(g.arguments) :
                  a.text = text /\ a.discussion_id = discussion_id}
        rs == {r \in BagToSet(g.replies) :
                  r.id = reply_id /\ r.discussion_id = discussion_id}
    IN  [g EXCEPT !.extracted_from = @ \cup
            {[text |-> a.text, discussion_id |-> a.discussion_id,
              label |-> "Reply", id |-> r.id] : a \in as, r \in rs}]

-----------------------------------------------------------------------------
(* The text-generation service (argument_chain, stance_classifier,         *)
(* argument_grouping_chain).  A service is named by the way it answers; an *)
(* answer is [raise, content]: the call raised, or returned these lines.   *)

NoArgs == "No clear arguments found"

Answer(lines) == [raise |-> FALSE, content |-> lines]

Raise == [raise |-> TRUE, content |-> <<>>]

\* the argument a faithful extractor finds in a body
ArgOf(text) ==
    CASE text = "b1" -> <<"a1">>
      [] text = "b2" -> <<"a2">>
      [] OTHER -> <<>>

argument_chain(how, text) ==
    CASE how = "list" ->
            IF ArgOf(text) = <<>> THEN Answer(<< <<NoArgs, ".">> >>)
            ELSE Answer(<< <<"1.", " ">> \o ArgOf(text) >>)
      [] how = "same" -> Answer(<< <<"1.", " ", "a1">> >>)
      [] how = "two" -> Answer(<< <<"1.", " ", "a1">>, <<>>, <<"2.", " ", "a2">> >>)
      [] how = "bare" -> Answer(<< <<"1.", " ">>, <<"a1">> >>)
      [] how = "none" -> Answer(<< <<" ", NoArgs, ".">> >>)
      [] how = "flaky" ->    \* the call fails for one of the bodies
            IF text = "b2" THEN Raise
            ELSE Answer(<< <<"1.", " ">> \o ArgOf(text) >>)
      [] how = "raise" -> Raise

stance_classifier(how, argument) ==
    CASE how = "for" -> Answer(<< <<"FOR">> >>)
      [] how = "against" -> Answer(<< <<"AGAINST">> >>)
      [] how = "split" ->
            IF argument = <<"a1">> THEN Answer(<< <<"FOR">> >>)
            ELSE Answer(<< <<"AGAINST">> >>)
      [] how = "lower" -> Answer(<< <<" ", "neutral", " ">> >>)
      [] how = "invalid" -> Answer(<< <<"maybe">> >>)
      [] how = "raise" -> Raise

RECURSIVE SetToSeq(_)
SetToSeq(S) ==
    IF S = {} THEN <<>>
    ELSE LET x == CHOOSE y \in S : TRUE IN <<x>> \o SetToSeq(S \ {x})

Bullets(arguments) == [k \in 1..Len(arguments) |-> <<"-", " ">> \o arguments[k]]

RECURSIVE OneGroupEach(_)
OneGroupEach(arguments) ==
    IF arguments = <<>> THEN <<>>
    ELSE << <<"Group:", " ", "about">> \o Head(arguments),
            <<"-", " ">> \o Head(arguments), <<>> >> \o OneGroupEach(Tail(arguments))

argument_grouping_chain(how, stance, arguments) ==
    CASE how = "one" ->      \* one group holding every argument given
            Answer(<< <<"Group:", " ", "g1">> >> \o Bullets(arguments))
      [] how = "each" ->     \* every argument alone in its own group
            Answer(OneGroupEach(arguments))
      [] how = "twice" ->    \* every argument listed under two groups
            Answer(<< <<"Group:", " ", "g1">> >> \o Bullets(arguments)
                   \o << <<"Group:", " ", "g2">> >> \o Bullets(arguments))
      [] how = "drop" ->     \* a group without members
            Answer(<< <<"Group:", " ", "g1">> >>)
      [] how = "fixed" ->    \* members that were not in the request
            Answer(<< <<"Group:", " ", "g1">>, <<"-", " ", "a1">>, <<"-", " ", "a2">> >>)
      [] how = "prose" ->    \* no group marker at all
            Answer(<< <<"sorry">> >> \o Bullets(arguments))
      [] how = "raise" -> Raise

-----------------------------------------------------------------------------
(* extract_and_classify_arguments *)

\* for arg in extracted: classify, keep the valid labels
RECURSIVE ClassifyAll(_, _, _)
ClassifyAll(how, extracted, acc) ==
    IF extracted = <<>> \/ acc.raised THEN acc
    ELSE LET arg == Head(extracted)
             stance_resp == stance_classifier(how, arg)
             stance == UpperStr(Strip(IF stance_resp.content = <<>> THEN <<>>
                                      ELSE stance_resp.content[1]))
             called == [acc EXCEPT !.classified = Append(@, arg)]
         IN  IF stance_resp.raise THEN [called EXCEPT !.raised = TRUE]
             ELSE IF stance \in {<<"FOR">>, <<"AGAINST">>, <<"NEUTRAL">>}
             THEN ClassifyAll(how, Tail(extracted),
                              [called EXCEPT !.result = Append(@, <<arg, stance[1]>>)])
             ELSE ClassifyAll(how, Tail(extracted), called)

\* faulty variant: the sentinel is not looked for
extract_and_classify_arguments_unguarded(llm, text, topic) ==
    LET response == argument_chain(llm.extract, text)
        content == StripContent(response.content)
        none == [raised |-> FALSE, result |-> <<>>, classified |-> <<>>]
        kept == SelectSeq(content, LAMBDA line : Strip(line) # <<>>)
        extracted == [k \in 1..Len(kept) |-> Strip(AfterFirstSpace(kept[k]))]
    IN  IF response.raise THEN [none EXCEPT !.raised = TRUE]
        ELSE ClassifyAll(llm.classify, extracted, none)

extract_and_classify_arguments(llm, text, topic) ==
    LET response == argument_chain(llm.extract, text)
        content == StripContent(response.content)
        none == [raised |-> FALSE, result |-> <<>>, classified |-> <<>>]
        kept == SelectSeq(content, LAMBDA line : Strip(line) # <<>>)
        extracted == [k \in 1..Len(kept) |-> Strip(AfterFirstSpace(kept[k]))]
    IN  IF response.raise THEN [none EXCEPT !.raised = TRUE]
        ELSE IF \E k \in 1..Len(content) : \E m \in 1..Len(content[k]) :
                    content[k][m] = NoArgs
        THEN none
        ELSE ClassifyAll(llm.classify, extracted, none)

-----------------------------------------------------------------------------
(* Interruption *)

\* One statement run against the store.  c carries the store g, whether the
\* call has stopped (raised), and fuel: the number of statements the process
\* still runs before it is killed, negative when it is never killed.  A
\* statement of a call that has stopped, or of a killed process, does nothing.
Write(c, g2) ==
    IF c.raised THEN c
    ELSE IF c.fuel = 0 THEN [c EXCEPT !.raised = TRUE]
    ELSE [c EXCEPT !.g = g2, !.fuel = IF @ > 0 THEN @ - 1 ELSE @]

-----------------------------------------------------------------------------
(* group_arguments_by_stance *)

\* faulty variant: the MATCH on the Argument leaves out its discussion_id
ClearGroups_everywhere(g, discussion_id) ==
    [g EXCEPT !.has_group = {},
              !.groups = DeleteNodes(@, {n \in BagToSet(@) :
                            \E e \in g.has_group :
                               e.summary = n.summary /\ e.stance = n.stance
                               /\ e.discussion_id = n.discussion_id})]

\* faulty variant: the relationships go, and with them the groups that had
\* none when the query began
ClearGroups_unlinked(g, discussion_id) ==
    [g EXCEPT !.has_group = {e \in @ : e.discussion_id # discussion_id},
              !.groups = DeleteNodes(@, {n \in BagToSet(@) :
                            /\ n.discussion_id = discussion_id
                            /\ ~\E e \in g.has_group :
                                  e.summary = n.summary /\ e.stance = n.stance
                                  /\ e.discussion_id = n.discussion_id})]

\* the DELETE query: every HAS_GROUP relationship leaving an Argument of the
\* discussion goes, then every group met on the way that has none left
ClearGroups(g, discussion_id) ==
    LET gone == {e \in g.has_group : e.discussion_id = discussion_id}
        left == g.has_group \ gone
        Met(n) == \E e \in gone : e.summary = n.summary /\ e.stance = n.stance
                                  /\ e.discussion_id = n.discussion_id
        Linked(n) == \E e \in left : e.summary = n.summary /\ e.stance = n.stance
                                     /\ e.discussion_id = n.discussion_id
    IN  [g EXCEPT !.has_group = left,
                  !.groups = DeleteNodes(@, {n \in BagToSet(@) : Met(n) /\ ~Linked(n)})]

\* group_map[key] = []: a dict keeps the place of a key it already holds
PutGroup(group_map, key) ==
    IF \E k \in 1..Len(group_map) : group_map[k][1] = key
    THEN [k \in 1..Len(group_map) |->
            IF group_map[k][1] = key THEN <<key, <<>> >> ELSE group_map[k]]
    ELSE Append(group_map, <<key, <<>> >>)

\* group_map[key].append(arg)
AddMember(group_map, key, arg) ==
    [k \in 1..Len(group_map) |->
        IF group_map[k][1] = key THEN <<key, Append(group_map[k][2], arg)>>
        ELSE group_map[k]]

\* the loop over content.splitlines(); current_group is None until a marker
RECURSIVE ParseGroups(_, _, _)
ParseGroups(lines, current_group, group_map) ==
    IF lines = <<>> THEN group_map
    ELSE LET line == Head(lines)
         IN  IF StartsWith(Strip(line), "Group:")
             THEN LET summary == Strip(RemoveToken(line, "Group:"))
                  IN  ParseGroups(Tail(lines), <<summary>>, PutGroup(group_map, summary))
             ELSE IF StartsWith(Strip(line), "-") /\ current_group # <<>>
                     /\ current_group[1] # <<>>
             THEN ParseGroups(Tail(lines), current_group,
                      AddMember(group_map, current_group[1],
                                Strip(LStripDash(Strip(line)))))
             ELSE ParseGroups(Tail(lines), current_group, group_map)

\* MATCH (a:Argument {text, discussion_id}) MATCH (g:ArgumentGroup {...}) MERGE (a)-[:HAS_GROUP]->(g)
LinkGroup(g, text, discussion_id, summary, stance) ==
    LET as == {a \in BagToSet(g.arguments) :
                  a.text = text /\ a.discussion_id = discussion_id}
        gs == {n \in BagToSet(g.groups) :
                  n.summary = summary /\ n.stance = stance
                  /\ n.discussion_id = discussion_id}
    IN  [g EXCEPT !.has_group = @ \cup
            {[text |-> a.text, discussion_id |-> a.discussion_id,
              summary |-> n.summary, stance |-> n.stance] : a \in as, n \in gs}]

\* for arg in arg_list
RECURSIVE LinkMembers(_, _, _, _, _)
LinkMembers(acc, arg_list, discussion_id, summary, stance) ==
    IF arg_list = <<>> THEN acc
    ELSE LinkMembers(
             Write(acc, LinkGroup(acc.g, Head(arg_list), discussion_id, summary, stance)),
             Tail(arg_list), discussion_id, summary, stance)

merge_group(g, summary, stance, discussion_id) ==
    [g EXCEPT !.groups =
        Merge(@, {n \in BagToSet(@) : n.summary = summary /\ n.stance = stance
                            /\ n.discussion_id = discussion_id},
              [summary |-> summary, stance |-> stance, discussion_id |-> discussion_id])]

\* for group_summary, arg_list in group_map.items()
\* the MERGE of one group; merged records the groups this call has merged
MergedGroup(acc, group_summary, stance, discussion_id) ==
    LET w == Write(acc, merge_group(acc.g, group_summary, stance, discussion_id))
    IN  IF w.raised THEN w
        ELSE [w EXCEPT !.merged = @ \cup {[summary |-> group_summary, stance |-> stance,
                                           discussion_id |-> discussion_id]}]

RECURSIVE WriteGroups(_, _, _, _)
WriteGroups(acc, group_map, stance, discussion_id) ==
    IF group_map = <<>> THEN acc
    ELSE LET group_summary == Head(group_map)[1]
             arg_list == Head(group_map)[2]
         IN  WriteGroups(
                 LinkMembers(MergedGroup(acc, group_summary, stance, discussion_id),
                             arg_list, discussion_id, group_summary, stance),
                 Tail(group_map), stance, discussion_id)

\* arguments of one stance, as the query returns them, blank texts left out
ArgumentsOf(g, stance, discussion_id) ==
    SetToSeq({a.text : a \in {x \in BagToSet(g.arguments) :
                 x.stance = stance /\ x.discussion_id = discussion_id
                 /\ Strip(x.text) # <<>>}})

\* for stance in ["FOR", "AGAINST", "NEUTRAL"], from position k on
RECURSIVE GroupStances(_, _, _, _)
GroupStances(acc, k, discussion_id, llm) ==
    IF k > Len(StanceOrder) \/ acc.raised THEN acc
    ELSE LET stance == StanceOrder[k]
             arguments == ArgumentsOf(acc.g, stance, discussion_id)
             response == argument_grouping_chain(llm.group, stance, arguments)
             group_map == ParseGroups(StripContent(response.content), <<>>, <<>>)
             asked == [acc EXCEPT !.asked = Append(@, stance)]
         IN  IF arguments = <<>> THEN GroupStances(acc, k + 1, discussion_id, llm)
             ELSE IF response.raise THEN [asked EXCEPT !.raised = TRUE]
             ELSE GroupStances(WriteGroups(asked, group_map, stance, discussion_id),
                               k + 1, discussion_id, llm)

\* result: the store afterwards, whether the call raised or was killed, the
\* stances for which the grouping service was asked, the groups merged
group_arguments_by_stance(g, drv, discussion_id, llm, fuel) ==
    IF ~drv
    THEN [g |-> g, raised |-> FALSE, fuel |-> fuel, asked |-> <<>>, merged |-> {}]
    ELSE GroupStances(
             Write([g |-> g, raised |-> FALSE, fuel |-> fuel, asked |-> <<>>,
                    merged |-> {}],
                   ClearGroups(g, discussion_id)),
             1, discussion_id, llm)

-----------------------------------------------------------------------------
(* create_knowledge_graph *)

\* value of a key the record does not carry
Missing == "<missing>"

\* dict.get(key, default)
Get(value, default) == IF value = Missing THEN default ELSE value

\* faulty variant: the positional id is used whether or not a source id is there
CommentId_positional(original_comment_id, stance, i) ==
    <<"comment_", stance, "_", IndexStr(i)>>

\* comment["id"] of a comment at (1-based) place i of the stance bucket
CommentId(original_comment_id, stance, i) ==
    IF original_comment_id = <<>> THEN <<"comment_", stance, "_", IndexStr(i)>>
    ELSE original_comment_id

\* reply["id"] of the reply at (1-based) place j under the comment
ReplyId(original_reply_id, comment_id, j) ==
    IF original_reply_id # <<>> THEN <<"reply_">> \o original_reply_id
    ELSE <<"reply_">> \o comment_id \o <<"_", IndexStr(j)>>

Event(ev, id) == [ev |-> ev, id |-> id]

\* tx.run(query, **record): a parameter of the query the record lacks raises
LacksParameter(record) == record.body = Missing

\* for arg, stance_classified in arguments_with_stance
RECURSIVE StoreArguments(_, _, _, _, _)
StoreArguments(c, arguments_with_stance, label, unit_id, discussion_id) ==
    IF arguments_with_stance = <<>> \/ c.raised THEN c
    ELSE LET arg == Head(arguments_with_stance)[1]
             stance_classified == Head(arguments_with_stance)[2]
             merged == Write(c, merge_argument(c.g, arg, stance_classified,
                                               discussion_id))
             linked == Write(merged,
                          IF label = "Comment"
                          THEN connect_argument_to_comment(merged.g, arg, unit_id,
                                                           discussion_id)
                          ELSE connect_argument_to_reply(merged.g, arg, unit_id,
                                                         discussion_id))
         IN  StoreArguments(
                 IF linked.raised THEN linked
                 ELSE [linked EXCEPT !.argument_count = @ + 1],
                 Tail(arguments_with_stance), label, unit_id, discussion_id)

\* the extraction of a new unit and the storing of what it returns
ExtractInto(c, body, label, unit_id, topic_title, discussion_id, llm) ==
    LET found == extract_and_classify_arguments(llm, Get(body, ""), topic_title)
        logged == [c EXCEPT !.log = Append(@, Event("extract", unit_id))]
    IN  IF c.raised THEN c
        ELSE IF found.raised THEN [logged EXCEPT !.raised = TRUE]
        ELSE StoreArguments(logged, found.result, label, unit_id, discussion_id)

\* what follows merge_reply for a reply that was not in the store
NewReply(merged, id, comment_id, discussion_id) ==
    IF merged.raised THEN merged
    ELSE Write([merged EXCEPT !.new_content_added = TRUE, !.reply_count = @ + 1],
               connect_reply_to_comment(merged.g, id, comment_id, discussion_id))

\* body of the loop over comment["replies"], for the reply at place j
ProcessReply(c, reply, j, comment_id, topic_title, discussion_id, llm, call) ==
    LET id == ReplyId(reply.id, comment_id, j)
        record == [id |-> id, discussion_id |-> discussion_id, body |-> reply.body,
                   author |-> reply.author, score |-> reply.score,
                   parent_comment_id |-> comment_id]
        reply_exists == check_reply_exists(c.g, id, discussion_id)
        w == Write(c, merge_reply(c.g, record))
        merged == IF w.raised THEN w
                  ELSE [w EXCEPT !.log = Append(@, Event("reply", id)),
                                 !.writes = @ \cup {[call |-> call, label |-> "Reply",
                                     sid |-> reply.sid, src |-> reply.id, id |-> id,
                                     parent |-> comment_id, place |-> j,
                                     at |-> Len(w.log) + 1, body |-> reply.body,
                                     author |-> reply.author,
                                     score |-> reply.score]}]
    IN  IF c.raised THEN c
        ELSE IF LacksParameter(record) THEN [c EXCEPT !.raised = TRUE]
        ELSE IF ~reply_exists
        THEN ExtractInto(NewReply(merged, id, comment_id, discussion_id),
                         reply.body, "Reply", id, topic_title, discussion_id, llm)
        ELSE merged

RECURSIVE ProcessReplies(_, _, _, _, _, _, _, _)
ProcessReplies(c, replies, j, comment_id, topic_title, discussion_id, llm, call) ==
    IF j > Len(replies) THEN c
    ELSE ProcessReplies(
             ProcessReply(c, replies[j], j, comment_id, topic_title, discussion_id,
                          llm, call),
             replies, j + 1, comment_id, topic_title, discussion_id, llm, call)

\* what follows merge_comment for a comment that was not in the store
NewComment(merged, id, topic_title, stance, discussion_id) ==
    IF merged.raised THEN merged
    ELSE Write([merged EXCEPT !.new_content_added = TRUE, !.comment_count = @ + 1],
               connect_comment_to_topic(merged.g, id, topic_title, stance,
                                        discussion_id))

\* body of the loop over a stance bucket, for the comment at place i
ProcessComment(c, comment, stance, i, topic_title, discussion_id, llm, call) ==
    LET id == CommentId(comment.id, stance, i)
        record == [id |-> id, discussion_id |-> discussion_id, body |-> comment.body,
                   author |-> comment.author, score |-> comment.score]
        comment_exists == check_comment_exists(c.g, id, discussion_id)
        w == Write(c, merge_comment(c.g, record))
        merged == IF w.raised THEN w
                  ELSE [w EXCEPT !.log = Append(@, Event("comment", id)),
                                 !.writes = @ \cup {[call |-> call, label |-> "Comment",
                                     sid |-> comment.id, src |-> comment.id, id |-> id,
                                     parent |-> <<stance>>, place |-> i,
                                     at |-> Len(w.log) + 1, body |-> comment.body,
                                     author |-> comment.author,
                                     score |-> comment.score]}]
        done == IF ~comment_exists
                THEN ExtractInto(NewComment(merged, id, topic_title, stance,
                                            discussion_id),
                                 comment.body, "Comment", id, topic_title,
                                 discussion_id, llm)
                ELSE merged
    IN  IF c.raised THEN c
        ELSE IF LacksParameter(record) THEN [c EXCEPT !.raised = TRUE]
        ELSE ProcessReplies(done, comment.replies, 1, id, topic_title, discussion_id,
                            llm, call)

RECURSIVE ProcessBucket(_, _, _, _, _, _, _, _)
ProcessBucket(c, comments, stance, i, topic_title, discussion_id, llm, call) ==
    IF i > Len(comments) THEN c
    ELSE ProcessBucket(
             ProcessComment(c, comments[i], stance, i, topic_title, discussion_id,
                            llm, call),
             comments, stance, i + 1, topic_title, discussion_id, llm, call)

\* for stance in ["FOR", "AGAINST", "NEUTRAL"], from position k on
RECURSIVE ProcessStances(_, _, _, _, _, _, _)
ProcessStances(c, k, classified_comments, topic_title, discussion_id, llm, call) ==
    IF k > Len(StanceOrder) THEN c
    ELSE ProcessStances(
             ProcessBucket(c, classified_comments[StanceOrder[k]], StanceOrder[k], 1,
                           topic_title, discussion_id, llm, call),
             k + 1, classified_comments, topic_title, discussion_id, llm, call)

AfterRegroup(c, r, discussion_id) ==
    [c EXCEPT !.g = r.g, !.raised = r.raised, !.fuel = r.fuel, !.merged = r.merged,
              !.log = Append(@, Event("regroup", <<discussion_id>>))]

\* faulty variant: the regroup runs whether or not content was added
Regrouped_always(c, drv, discussion_id, llm) ==
    IF c.raised THEN c
    ELSE AfterRegroup(c, group_arguments_by_stance(c.g, drv, discussion_id, llm,
                                                   c.fuel),
                      discussion_id)

\* if new_content_added: group_arguments_by_stance(discussion_id)
Regrouped(c, drv, discussion_id, llm) ==
    IF c.raised \/ ~c.new_content_added THEN c
    ELSE AfterRegroup(c, group_arguments_by_stance(c.g, drv, discussion_id, llm,
                                                   c.fuel),
                      discussion_id)

NoResult ==
    [status |-> "raised", discussion_id |-> None,
     nodes_created |-> [topic |-> 0, comments |-> 0, replies |-> 0, arguments |-> 0],
     new_content_added |-> FALSE]

\* the return statement, or the exception that took its place
Outcome(c, discussion_id) ==
    [g |-> c.g, raised |-> c.raised, log |-> c.log, writes |-> c.writes,
     merged |-> c.merged,
     ret |-> IF c.raised THEN NoResult
             ELSE [status |-> "success", discussion_id |-> discussion_id,
                   nodes_created |-> [topic |-> 1, comments |-> c.comment_count,
                                      replies |-> c.reply_count,
                                      arguments |-> c.argument_count],
                   new_content_added |-> c.new_content_added]]

\* the body of "with driver.session() as session", once discussion_id is known
Session(g, drv, thread_data, discussion_id, llm, call, fuel) ==
    Outcome(
        Regrouped(
            ProcessStances(
                Write([g |-> g, raised |-> FALSE, fuel |-> fuel,
                       comment_count |-> 0, reply_count |-> 0,
                       argument_count |-> 0, new_content_added |-> FALSE,
                       log |-> <<>>, writes |-> {}, merged |-> {}],
                      merge_topic(g, thread_data.post.title, discussion_id,
                                  thread_data.post.url)),
                1, thread_data.classified_comments, thread_data.post.title,
                discussion_id, llm, call),
            drv, discussion_id, llm),
        discussion_id)

\* faulty variant: a new id is drawn whether or not the url is known
ResolveId_always_new(existing, uuid) == uuid

\* existing if existing else str(uuid.uuid4())
ResolveId(existing, uuid) == IF existing # None THEN existing ELSE uuid

\* result: the store afterwards, whether the call raised instead of
\* returning, the dict returned, the calls logged, the nodes written.
\* uuid is the value str(uuid.uuid4()) has when it is evaluated, call numbers
\* the invocation, fuel is the budget of Write.
create_knowledge_graph(g, drv, thread_data, uuid, llm, call, fuel) ==
    IF ~drv
    THEN [g |-> g, raised |-> TRUE, ret |-> NoResult, log |-> <<>>, writes |-> {},
          merged |-> {}]
    ELSE Session(g, drv, thread_data,
                 ResolveId(check_existing_discussion_by_url(g, thread_data.post.url),
                           uuid),
                 llm, call, fuel)

-----------------------------------------------------------------------------
(* Thread trees handed to the writer *)

URLs == {"url1", "url2"}

UUIDs == {"d1", "d2"}

c1 == <<"c1">>

r1 == <<"r1">>

K1 == [body |-> "b1", author |-> "u1", score |-> 1]

K2 == [body |-> "b2", author |-> "u2", score |-> 2]

r2 == <<"r2">>

\* a reply record: sid is the id the reply has at the source, id the id the
\* record carries to the writer, empty when the caller has dropped it
Reply(sid, carried, k) ==
    [sid |-> sid, id |-> IF carried THEN sid ELSE <<>>,
     body |-> k.body, author |-> k.author, score |-> k.score]

Comment(id, k, replies) ==
    [id |-> id, body |-> k.body, author |-> k.author, score |-> k.score,
     replies |-> replies]

ThreadData(url, classified_comments) ==
    [post |-> [title |-> "topic", url |-> url],
     classified_comments |-> classified_comments]

RECURSIVE SeqsUpTo(_, _)
SeqsUpTo(S, n) ==
    IF n = 0 THEN {<<>>}
    ELSE LET shorter == SeqsUpTo(S, n - 1)
         IN  shorter \cup {Append(q, x) : q \in {p \in shorter : Len(p) = n - 1}, x \in S}

RECURSIVE UnitsIn(_)
UnitsIn(comments) ==
    IF comments = <<>> THEN 0
    ELSE 1 + Len(Head(comments).replies) + UnitsIn(Tail(comments))

Units(thread_data) ==
    UnitsIn(thread_data.classified_comments["FOR"])
    + UnitsIn(thread_data.classified_comments["AGAINST"])
    + UnitsIn(thread_data.classified_comments["NEUTRAL"])

\* the lists of comments from C that hold at most n units
RECURSIVE ListsWithin(_, _)
ListsWithin(C, n) ==
    {<<>>} \cup
    UNION {{<<c>> \o rest : rest \in ListsWithin(C, n - 1 - Len(c.replies))} :
              c \in {x \in C : 1 + Len(x.replies) <= n}}

\* the ways to fill the buckets from place k of StanceOrder on with at most n units
RECURSIVE Fills(_, _, _, _)
Fills(k, buckets, C, n) ==
    IF k > Len(StanceOrder) THEN {<<>>}
    ELSE UNION {{<<l>> \o rest : rest \in Fills(k + 1, buckets, C, n - UnitsIn(l))} :
                   l \in IF StanceOrder[k] \in buckets THEN ListsWithin(C, n)
                         ELSE {<<>>}}

\* every tree of at most MaxUnits units whose comments come from C and lie in
\* the buckets named
TreesOver(urls, buckets, C) ==
    {ThreadData(u, [s \in Stances |->
                       f[CHOOSE k \in 1..Len(StanceOrder) : StanceOrder[k] = s]]) :
        u \in urls, f \in Fills(1, buckets, C, MaxUnits)}

c2 == <<"c2">>

\* comments with or without a source id, in either of two buckets, no replies
PlainComments == {Comment(id, K1, <<>>) : id \in {<<>>, c1}}

Trees == TreesOver({"url1"}, {"FOR", "AGAINST"}, PlainComments)

\* comments of one bucket that carry replies with or without a source id
RepliedComments ==
    {Comment(id, K1, rs) : id \in {<<>>, c1},
        rs \in SeqsUpTo({Reply(r1, TRUE, K1), Reply(r1, FALSE, K1),
                         Reply(r2, FALSE, K1)}, MaxUnits - 1)}

ReplyTrees == TreesOver({"url1"}, {"FOR"}, RepliedComments)

\* the same comment under either of two urls
UrlTrees ==
    TreesOver(URLs, {"NEUTRAL"}, {Comment(c1, K1, <<>>), Comment(c1, K2, <<>>)})

\* two comments whose bodies yield different arguments
GroupTrees ==
    TreesOver({"url1"}, {"FOR"}, {Comment(c1, K1, <<>>), Comment(c2, K2, <<>>)})

\* a faithful service: one argument per body, one group per stance
Faithful == [extract |-> "list", classify |-> "split", group |-> "one"]

\* a record without a "body" key
K0 == [body |-> Missing, author |-> "u1", score |-> 1]

\* comments and replies without ids, with or without a body
MalformedTrees ==
    TreesOver({"url1"}, {"FOR"},
        {Comment(<<>>, k, rs) : k \in {K1, K0},
            rs \in SeqsUpTo({Reply(r1, FALSE, K1), Reply(r1, FALSE, K0)},
                            MaxUnits - 1)})

\* one comment and one reply, each with either of two contents
RefreshTrees ==
    TreesOver({"url1"}, {"FOR"},
        {Comment(c1, k, rs) : k \in {K1, K2},
            rs \in SeqsUpTo({Reply(r1, TRUE, K1), Reply(r1, TRUE, K2)},
                            MaxUnits - 1)})

\* two comments whose bodies yield the same argument
StanceTrees ==
    TreesOver({"url1"}, {"FOR"}, {Comment(c1, K1, <<>>), Comment(c2, K1, <<>>)})

\* classifiers that give every argument the one label, each its own
Classifiers ==
    {[Faithful EXCEPT !.classify = how] : how \in {"for", "against", "lower"}}

\* two comments with ids, in one bucket
FaultTrees ==
    TreesOver({"url1"}, {"FOR"}, {Comment(c1, K1, <<>>), Comment(c2, K2, <<>>)})

\* services that fail, find nothing, or answer outside the three labels
Services ==
    {Faithful,
     [Faithful EXCEPT !.extract = "flaky"],
     [Faithful EXCEPT !.extract = "none", !.classify = "raise"],
     [Faithful EXCEPT !.classify = "invalid"],
     [Faithful EXCEPT !.classify = "lower"],
     [Faithful EXCEPT !.extract = "two", !.classify = "raise"]}

-----------------------------------------------------------------------------
(* State machine *)

NoThread == ThreadData(None, [s \in Stances |-> <<>>])

\* before: the store when the call began; repeat: the call before it was a
\* completed ingestion of the same thread tree; resumed: the call before it
\* was an ingestion of the same thread tree that was killed, and origin the
\* store when that one began; merged: the groups the call merged
NoCall ==
    [op |-> "none", thread_data |-> NoThread, discussion_id |-> None,
     llm |-> Faithful, raised |-> FALSE, ret |-> NoResult, log |-> <<>>,
     before |-> EmptyGraph, repeat |-> FALSE, resumed |-> FALSE,
     origin |-> EmptyGraph, merged |-> {}]

Init ==
    /\ driver = TRUE
    /\ graph = EmptyGraph
    /\ last = NoCall
    /\ minted = [u \in URLs |-> None]
    /\ written = {}
    /\ nops = 0

\* the discussion ids the store holds
Used(g) == {t.discussion_id : t \in BagToSet(g.topics)}

\* what a call of create_knowledge_graph with outcome r leaves behind
Returned(r, thread_data, llm) ==
    /\ graph' = r.g
    /\ last' = [op |-> "ingest", thread_data |-> thread_data, llm |-> llm,
                discussion_id |-> r.ret.discussion_id, raised |-> r.raised,
                ret |-> r.ret, log |-> r.log, before |-> graph,
                repeat |-> (last.op = "ingest" /\ ~last.raised
                            /\ last.thread_data = thread_data),
                resumed |-> (last.op = "crash" /\ last.thread_data = thread_data),
                origin |-> IF last.op = "crash" /\ last.thread_data = thread_data
                           THEN last.before ELSE graph,
                merged |-> r.merged]
    /\ minted' = IF minted[thread_data.post.url] = None
                 THEN [minted EXCEPT ![thread_data.post.url] =
                          check_existing_discussion_by_url(r.g, thread_data.post.url)]
                 ELSE minted
    /\ written' = written \cup r.writes

\* the values str(uuid.uuid4()) can take: any id not in use; NotDrawn where
\* the code does not reach the call
NotDrawn == "not drawn"

Fresh(g, url) ==
    IF check_existing_discussion_by_url(g, url) = None THEN UUIDs \ Used(g)
    ELSE {NotDrawn}

\* POST /kgCreator: one call of create_knowledge_graph
Ingest(thread_data, llm) ==
    /\ nops < MaxOps
    /\ \E uuid \in Fresh(graph, thread_data.post.url) :
          Returned(create_knowledge_graph(graph, driver, thread_data, uuid, llm,
                                          nops + 1, -1),
                   thread_data, llm)
    /\ nops' = nops + 1
    /\ UNCHANGED driver

\* what a call of create_knowledge_graph leaves behind when the process is
\* killed in the middle of it, r being what it had done by then
Killed(r, thread_data, llm) ==
    /\ r.raised
    /\ graph' = r.g
    /\ last' = [NoCall EXCEPT !.op = "crash", !.thread_data = thread_data,
                              !.llm = llm, !.raised = TRUE, !.log = r.log,
                              !.before = graph, !.origin = graph]
    /\ minted' = IF minted[thread_data.post.url] = None
                 THEN [minted EXCEPT ![thread_data.post.url] =
                          check_existing_discussion_by_url(r.g, thread_data.post.url)]
                 ELSE minted
    /\ written' = written \cup r.writes

\* POST /kgCreator, the process being killed after fuel statements
Crash(thread_data, llm, fuel) ==
    /\ nops < MaxOps
    /\ \E uuid \in Fresh(graph, thread_data.post.url) :
          Killed(create_knowledge_graph(graph, driver, thread_data, uuid, llm,
                                        nops + 1, fuel),
                 thread_data, llm)
    /\ nops' = nops + 1
    /\ UNCHANGED driver

\* the call before ran group_arguments_by_stance for this discussion to its
\* end, with this grouping service
Regrouped_before(discussion_id, llm) ==
    /\ ~last.raised /\ last.discussion_id = discussion_id /\ last.llm = llm
    /\ \/ last.op = "regroup"
       \/ last.op = "ingest" /\ \E k \in 1..Len(last.log) : last.log[k].ev = "regroup"

\* what a call of group_arguments_by_stance with outcome r leaves behind
Regrouping(r, discussion_id, llm) ==
    /\ graph' = r.g
    /\ last' = [NoCall EXCEPT !.op = "regroup", !.discussion_id = discussion_id,
                              !.llm = llm,
                              !.raised = r.raised, !.before = graph,
                              !.origin = graph, !.merged = r.merged,
                              !.repeat = Regrouped_before(discussion_id, llm),
                              !.log = [k \in 1..Len(r.asked) |->
                                          Event("ask", <<r.asked[k]>>)]]

\* a call of group_arguments_by_stance on its own
Regroup(discussion_id, llm) ==
    /\ nops < MaxOps
    /\ Regrouping(group_arguments_by_stance(graph, driver, discussion_id, llm, -1),
                  discussion_id, llm)
    /\ nops' = nops + 1
    /\ UNCHANGED <<driver, minted, written>>

\* the ways the grouping service answers
Groupers ==
    {[Faithful EXCEPT !.group = how] :
        how \in {"one", "each", "twice", "drop", "fixed", "prose", "raise"}}

\* comments placed in the stance buckets, a faithful service
Next ==
    \/ \E t \in Trees : Ingest(t, Faithful)
    \/ \E d \in Used(graph) : Regroup(d, Faithful)

Spec == Init /\ [][Next]_vars

\* comments with replies
NextReplies ==
    \/ \E t \in ReplyTrees : Ingest(t, Faithful)
    \/ \E d \in Used(graph) : Regroup(d, Faithful)

SpecReplies == Init /\ [][NextReplies]_vars

\* threads of two urls
NextUrls ==
    \/ \E t \in UrlTrees : Ingest(t, Faithful)
    \/ \E d \in Used(graph) : Regroup(d, Faithful)

SpecUrls == Init /\ [][NextUrls]_vars

\* every answer of the grouping service
NextGroups ==
    \/ \E t \in GroupTrees, llm \in Groupers : Ingest(t, llm)
    \/ \E d \in Used(graph), llm \in Groupers : Regroup(d, llm)

SpecGroups == Init /\ [][NextGroups]_vars

\* services that fail or answer badly
NextFaults ==
    \/ \E t \in FaultTrees, llm \in Services : Ingest(t, llm)
    \/ \E d \in Used(graph), llm \in Services : Regroup(d, llm)

SpecFaults == Init /\ [][NextFaults]_vars

\* records that lack keys
NextMalformed ==
    \/ \E t \in MalformedTrees : Ingest(t, Faithful)
    \/ \E d \in Used(graph) : Regroup(d, Faithful)

SpecMalformed == Init /\ [][NextMalformed]_vars

\* an argument classified anew in a later call
NextStances ==
    \/ \E t \in StanceTrees, llm \in Classifiers : Ingest(t, llm)
    \/ \E d \in Used(graph), llm \in Classifiers : Regroup(d, llm)

SpecStances == Init /\ [][NextStances]_vars

\* units whose contents change between ingestions
NextRefresh ==
    \/ \E t \in RefreshTrees : Ingest(t, Faithful)
    \/ \E d \in Used(graph) : Regroup(d, Faithful)

SpecRefresh == Init /\ [][NextRefresh]_vars

\* the module is loaded with the store reachable or not: driver is None for
\* good when GraphDatabase.driver raised
InitStartup ==
    /\ driver \in BOOLEAN
    /\ graph = EmptyGraph
    /\ last = NoCall
    /\ minted = [u \in URLs |-> None]
    /\ written = {}
    /\ nops = 0

SpecStartup == InitStartup /\ [][Next]_vars

\* a comment, alone or with a reply
CrashTrees ==
    TreesOver({"url1"}, {"FOR"},
              {Comment(c1, K1, <<>>), Comment(c1, K1, <<Reply(r1, TRUE, K1)>>)})

\* the numbers of statements after which the process may be killed
Crashes == 0..(6 * MaxUnits)

\* ingestions that may be killed
NextCrash ==
    \/ \E t \in CrashTrees : Ingest(t, Faithful)
    \/ \E t \in CrashTrees, fuel \in Crashes : Crash(t, Faithful, fuel)

SpecCrash == Init /\ [][NextCrash]_vars

-----------------------------------------------------------------------------
(* Properties *)

Nodes(b) == BagToSet(b)

CompletedIngest == last.op = "ingest" /\ ~last.raised

\* the Comment and Reply nodes the last call wrote that the store did not
\* hold when it began
NewUnits ==
    {w \in written : w.call = nops /\
        IF w.label = "Comment"
        THEN ~\E n \in Nodes(last.before.comments) :
                 n.id = w.id /\ n.discussion_id = last.discussion_id
        ELSE ~\E n \in Nodes(last.before.replies) :
                 n.id = w.id /\ n.discussion_id = last.discussion_id}

Count(log, ev) == Cardinality({k \in 1..Len(log) : log[k].ev = ev})

\* C1: a completed ingestion of the thread tree that the completed ingestion
\* before it had ingested reports nothing new (new_content_added false, zero
\* comments, replies and arguments) and leaves the Comment, Reply, Argument
\* and ArgumentGroup nodes and the stance, REPLY_TO, EXTRACTED_FROM and
\* HAS_GROUP relationships as they were.
C1_Idempotent ==
    (last.op = "ingest" /\ last.repeat) =>
        /\ ~last.raised
        /\ last.ret.new_content_added = FALSE
        /\ last.ret.nodes_created.comments = 0
        /\ last.ret.nodes_created.replies = 0
        /\ last.ret.nodes_created.arguments = 0
        /\ graph.comments = last.before.comments
        /\ graph.replies = last.before.replies
        /\ graph.arguments = last.before.arguments
        /\ graph.groups = last.before.groups
        /\ graph.stance_edges = last.before.stance_edges
        /\ graph.reply_to = last.before.reply_to
        /\ graph.extracted_from = last.before.extracted_from
        /\ graph.has_group = last.before.has_group

\* a tree with a comment and a reply was ingested twice in a row
C1_Witness ==
    /\ last.op = "ingest" /\ last.repeat
    /\ Len(last.thread_data.classified_comments["FOR"]) = 1
    /\ Len(last.thread_data.classified_comments["FOR"][1].replies) = 1
    /\ Nodes(graph.replies) # {} /\ graph.has_group # {}

\* C2: there is at most one Topic node per url, the discussion_id stored on
\* it is the one stored by the first ingestion of the url, and every
\* completed ingestion returns that id.
C2_DiscussionIdentity ==
    /\ \A t \in Nodes(graph.topics) :
          /\ graph.topics[t] = 1
          /\ \A t2 \in Nodes(graph.topics) : t2.url = t.url => t2 = t
          /\ minted[t.url] = t.discussion_id
    /\ CompletedIngest => last.ret.discussion_id = minted[last.thread_data.post.url]

\* a url the store already held was ingested again while an unused id was
\* there to be drawn
C2_Witness ==
    /\ CompletedIngest
    /\ \E t \in Nodes(last.before.topics) : t.url = last.thread_data.post.url
    /\ UUIDs \ Used(last.before) # {}
    /\ last.ret.discussion_id \in UUIDs

\* C3: two writes of a comment with the same non-empty source id, in any two
\* calls, buckets and places, go to the same Comment id, and the store holds
\* a Comment node of that id.
C3_StableCommentId ==
    \A w1, w2 \in {w \in written : w.label = "Comment" /\ w.src # <<>>} :
        w1.src = w2.src =>
            /\ w1.id = w2.id
            /\ \E n \in Nodes(graph.comments) : n.id = w1.id

\* one source id was written in two calls, in different buckets and places,
\* the second time behind a comment without a source id
C3_Witness ==
    \E w1, w2 \in {w \in written : w.label = "Comment" /\ w.src # <<>>} :
        /\ w1.src = w2.src /\ w1.call # w2.call
        /\ w1.parent # w2.parent /\ w1.place # w2.place
        /\ \E w3 \in written : w3.call = w2.call /\ w3.src = <<>>

\* C4: the Reply id is a function of the reply's source id alone: over all
\* calls, a reply is written to one Reply id, whatever its parent comment
\* and its place among the replies, and two replies are written to two.
C4_ReplyIdOfSourceIdAlone ==
    \A w1, w2 \in {w \in written : w.label = "Reply"} :
        w1.sid = w2.sid <=> w1.id = w2.id

\* C5: every Comment node has exactly one stance relationship, and it leads
\* to the Topic of the comment's discussion.
C5_OneStanceEdge ==
    \A n \in Nodes(graph.comments) :
        LET out == {e \in graph.stance_edges :
                       e.id = n.id /\ e.discussion_id = n.discussion_id}
        IN  /\ Cardinality(out) = 1
            /\ \A e \in out :
                  /\ e.rel \in {"SUPPORTS", "OPPOSES", "NEUTRAL"}
                  /\ \E t \in Nodes(graph.topics) :
                        t.url = e.url /\ t.discussion_id = n.discussion_id

\* one comment id was ingested in two buckets: in one tree, or in two calls
C5_Witness ==
    /\ CompletedIngest
    /\ \E w1, w2 \in {w \in written : w.label = "Comment"} :
          w1.id = w2.id /\ w1.parent # w2.parent /\ w1.call = w2.call
    /\ \E w1, w2 \in {w \in written : w.label = "Comment"} :
          w1.id = w2.id /\ w1.parent # w2.parent /\ w1.call # w2.call

\* C6: every Reply node has exactly one REPLY_TO relationship, and it leads
\* to a Comment node of the same discussion.
C6_OneReplyTo ==
    \A n \in Nodes(graph.replies) :
        LET out == {e \in graph.reply_to :
                       e.id = n.id /\ e.discussion_id = n.discussion_id}
        IN  /\ Cardinality(out) = 1
            /\ \A e \in out : \E c \in Nodes(graph.comments) :
                  c.id = e.comment_id /\ c.discussion_id = n.discussion_id

\* a reply was ingested again under another parent comment
C6_Witness ==
    /\ CompletedIngest
    /\ \E w1, w2 \in {w \in written : w.label = "Reply"} :
          w1.id = w2.id /\ w1.parent # w2.parent /\ w1.call # w2.call

\* the last call ran group_arguments_by_stance to its end
RegroupCompleted ==
    /\ ~last.raised
    /\ last.op = "regroup" \/ (last.op = "ingest" /\ Count(last.log, "regroup") = 1)

\* the last call ran group_arguments_by_stance and the grouping service failed
RegroupFailed ==
    /\ last.raised
    /\ last.op = "regroup" \/ (last.op = "ingest" /\ Count(last.log, "regroup") = 1)

\* number of HAS_GROUP relationships entering the groups of one stance
Members(g, stance, discussion_id) ==
    Cardinality({e \in g.has_group :
                    e.stance = stance /\ e.discussion_id = discussion_id})

\* C7: after a regroup that completed, every Argument of the discussion has
\* at most one HAS_GROUP relationship, and for each stance the members of
\* its groups number as many as its Arguments.
C7_GroupExclusivity ==
    RegroupCompleted =>
        /\ \A a \in Nodes(graph.arguments) :
              a.discussion_id = last.discussion_id =>
                 Cardinality({e \in graph.has_group :
                     e.text = a.text /\ e.discussion_id = a.discussion_id}) <= 1
        /\ \A s \in Stances :
              Members(graph, s, last.discussion_id) =
                 Cardinality({a \in Nodes(graph.arguments) :
                     a.stance = s /\ a.discussion_id = last.discussion_id})

\* C8: a completed ingestion calls the regroup once, after the last comment
\* and reply, when a Comment or Reply was new, and not at all, leaving
\* groups and HAS_GROUP alone, when none was.
C8_RegroupTrigger ==
    CompletedIngest =>
        IF NewUnits # {}
        THEN /\ Count(last.log, "regroup") = 1
             /\ last.log[Len(last.log)] = Event("regroup", <<last.discussion_id>>)
        ELSE /\ Count(last.log, "regroup") = 0
             /\ graph.groups = last.before.groups
             /\ graph.has_group = last.before.has_group

\* an ingestion of a new comment followed by a comment the store held, over
\* a store that holds groups
C8_Witness ==
    /\ CompletedIngest
    /\ Cardinality(NewUnits) = 1
    /\ Count(last.log, "comment") = 2
    /\ last.log[2].ev = "extract"
    /\ Nodes(last.before.groups) # {}

\* C9: no two nodes share a natural key: url for Topic, (id, discussion_id)
\* for Comment and Reply, (text, discussion_id) for Argument, (summary,
\* stance, discussion_id) for ArgumentGroup.
C9_NaturalKeys ==
    /\ \A n \in Nodes(graph.topics) :
          graph.topics[n] = 1 /\
          \A m \in Nodes(graph.topics) : m.url = n.url => m = n
    /\ \A n \in Nodes(graph.comments) :
          graph.comments[n] = 1 /\
          \A m \in Nodes(graph.comments) :
             (m.id = n.id /\ m.discussion_id = n.discussion_id) => m = n
    /\ \A n \in Nodes(graph.replies) :
          graph.replies[n] = 1 /\
          \A m \in Nodes(graph.replies) :
             (m.id = n.id /\ m.discussion_id = n.discussion_id) => m = n
    /\ \A n \in Nodes(graph.arguments) :
          graph.arguments[n] = 1 /\
          \A m \in Nodes(graph.arguments) :
             (m.text = n.text /\ m.discussion_id = n.discussion_id) => m = n
    /\ \A n \in Nodes(graph.groups) :
          graph.groups[n] = 1 /\
          \A m \in Nodes(graph.groups) :
             (m.summary = n.summary /\ m.stance = n.stance
              /\ m.discussion_id = n.discussion_id) => m = n

\* a Comment and a Reply were merged a second time, into a store that held
\* a Topic, Arguments and ArgumentGroups
C9_Witness ==
    /\ CompletedIngest
    /\ Nodes(last.before.topics) # {} /\ Nodes(last.before.groups) # {}
    /\ Nodes(last.before.arguments) # {}
    /\ \E w1, w2 \in {w \in written : w.label = "Comment"} :
          w1.id = w2.id /\ w1.call # w2.call
    /\ \E w1, w2 \in {w \in written : w.label = "Reply"} :
          w1.id = w2.id /\ w1.call # w2.call

\* C10: a regroup in which the call to the grouping service fails leaves the
\* ArgumentGroup nodes and the HAS_GROUP relationships as they were.
C10_FailedRegroupKeepsGroups ==
    RegroupFailed =>
        /\ graph.groups = last.before.groups
        /\ graph.has_group = last.before.has_group

\* C11: an ingestion in which the processing of a comment or reply raises
\* still processes every comment and reply of the tree and returns status
\* "success".
C11_PartialFailureTolerated ==
    last.op = "ingest" =>
        /\ ~last.raised
        /\ last.ret.status = "success"
        /\ Count(last.log, "comment") + Count(last.log, "reply")
              = Units(last.thread_data)

\* C12: when the driver was never created, create_knowledge_graph returns
\* a result of status "error" and does not raise, and no discussion_id is
\* drawn or stored.
C12_UnreachableStoreReturnsError ==
    (last.op = "ingest" /\ ~driver) =>
        /\ ~last.raised
        /\ last.ret.status = "error"
        /\ graph = EmptyGraph
        /\ \A u \in URLs : minted[u] = None

\* C13: a completed ingestion of the tree whose ingestion was killed just
\* before leaves the store as one ingestion of the tree, not killed, would
\* have left it from where the killed one began.
C13_CrashResume ==
    (last.op = "ingest" /\ ~last.raised /\ last.resumed) =>
        graph = create_knowledge_graph(last.origin, driver, last.thread_data,
                                       last.discussion_id, last.llm, nops, -1).g

\* C14: the counts a completed ingestion returns are the numbers of
\* Comment, Reply and Argument nodes the store holds after it and did not
\* hold before it.
C14_CountsAreNewNodes ==
    CompletedIngest =>
        /\ last.ret.nodes_created.comments =
              Cardinality({<<n.id, n.discussion_id>> : n \in Nodes(graph.comments)}
                  \ {<<n.id, n.discussion_id>> : n \in Nodes(last.before.comments)})
        /\ last.ret.nodes_created.replies =
              Cardinality({<<n.id, n.discussion_id>> : n \in Nodes(graph.replies)}
                  \ {<<n.id, n.discussion_id>> : n \in Nodes(last.before.replies)})
        /\ last.ret.nodes_created.arguments =
              Cardinality({<<n.text, n.discussion_id>> : n \in Nodes(graph.arguments)}
                  \ {<<n.text, n.discussion_id>> : n \in Nodes(last.before.arguments)})

\* C15: after a regroup that completed, every ArgumentGroup node of the
\* discussion is one this regroup merged; none is left from an earlier one,
\* with or without members.
C15_NoStaleGroups ==
    RegroupCompleted =>
        \A n \in Nodes(graph.groups) :
            n.discussion_id = last.discussion_id => n \in last.merged

\* the comment node whose arguments the last call extracted under this id
BodyOf(unit_id) ==
    (CHOOSE n \in Nodes(graph.comments) :
        n.id = unit_id /\ n.discussion_id = last.discussion_id).body

\* C16: every argument handed to the classifier is kept with one of the
\* three labels, NEUTRAL when the answer, trimmed and upper-cased, is none of
\* them: after a completed ingestion it is an Argument node with such a
\* stance, linked to the unit it was extracted from.
C16_InvalidLabelDefaultsToNeutral ==
    CompletedIngest =>
        \A k \in 1..Len(last.log) :
            last.log[k].ev = "extract" =>
                LET r == extract_and_classify_arguments(
                             last.llm, BodyOf(last.log[k].id),
                             last.thread_data.post.title)
                IN  \A m \in 1..Len(r.classified) :
                        \E a \in Nodes(graph.arguments) :
                            /\ a.text = r.classified[m]
                            /\ a.discussion_id = last.discussion_id
                            /\ a.stance \in Stances
                            /\ [text |-> a.text, id |-> last.log[k].id,
                                discussion_id |-> a.discussion_id,
                                label |-> "Comment"] \in graph.extracted_from

\* the extraction service answers this body with the sentinel
Sentinel(how, text) ==
    LET response == argument_chain(how, text)
    IN  /\ ~response.raise
        /\ \E k \in 1..Len(response.content) : \E m \in 1..Len(response.content[k]) :
              response.content[k][m] = NoArgs

\* the comments of the tree the last call was given
GivenComments ==
    UNION {{last.thread_data.classified_comments[s][i] :
               i \in 1..Len(last.thread_data.classified_comments[s])} : s \in Stances}

\* C17: when the extraction service answers the sentinel,
\* extract_and_classify_arguments returns the empty list, does not raise and
\* does not call the classifier, and the ingestion writes no Argument node
\* and no EXTRACTED_FROM relationship.
C17_SentinelYieldsNothing ==
    (last.op = "ingest"
     /\ \A c \in GivenComments : Sentinel(last.llm.extract, c.body)) =>
        /\ ~last.raised
        /\ last.ret.nodes_created.arguments = 0
        /\ graph.arguments = last.before.arguments
        /\ graph.extracted_from = last.before.extracted_from
        /\ \A c \in GivenComments :
              LET r == extract_and_classify_arguments(last.llm, c.body,
                                                      last.thread_data.post.title)
              IN  ~r.raised /\ r.result = <<>> /\ r.classified = <<>>

\* two new comments were answered with the sentinel by a service whose
\* classifier fails when called
C17_Witness ==
    /\ CompletedIngest
    /\ Count(last.log, "extract") = 2
    /\ \A c \in GivenComments : Sentinel(last.llm.extract, c.body)
    /\ stance_classifier(last.llm.classify, <<"a1">>).raise

\* C18: an ingestion of records that lack an id or a body does not fail:
\* every comment and reply of the tree is processed and has its node, a
\* missing body being stored as the empty string.
C18_MalformedUnitsIngested ==
    last.op = "ingest" =>
        /\ ~last.raised
        /\ Count(last.log, "comment") + Count(last.log, "reply")
              = Units(last.thread_data)
        /\ \A w \in {x \in written : x.call = nops} :
              \E n \in IF w.label = "Comment" THEN Nodes(graph.comments)
                       ELSE Nodes(graph.replies) :
                 n.id = w.id /\ n.discussion_id = last.discussion_id
        /\ \A n \in Nodes(graph.comments) \cup Nodes(graph.replies) :
              n.body # Missing

\* C19: after a completed ingestion every Reply node has exactly one stance
\* relationship (SUPPORTS, OPPOSES or NEUTRAL), leading to the Topic of its
\* discussion.
C19_ReplyStanceEdge ==
    CompletedIngest =>
        \A n \in Nodes(graph.replies) :
            LET out == {e \in graph.stance_edges :
                           e.label = "Reply" /\ e.id = n.id
                           /\ e.discussion_id = n.discussion_id}
            IN  /\ Cardinality(out) = 1
                /\ \A e \in out :
                      /\ e.rel \in {"SUPPORTS", "OPPOSES", "NEUTRAL"}
                      /\ \E t \in Nodes(graph.topics) :
                            t.url = e.url /\ t.discussion_id = n.discussion_id

\* the nodes and relationships of a store that carry this discussion_id
Part(g, d) ==
    LET Of(b) == [n \in {x \in Nodes(b) : x.discussion_id = d} |-> b[n]]
        In(E) == {e \in E : e.discussion_id = d}
    IN  [topics |-> Of(g.topics), comments |-> Of(g.comments),
         replies |-> Of(g.replies), arguments |-> Of(g.arguments),
         groups |-> Of(g.groups), stance_edges |-> In(g.stance_edges),
         reply_to |-> In(g.reply_to), extracted_from |-> In(g.extracted_from),
         has_group |-> In(g.has_group)]

\* C20: an ingestion or a regroup for one discussion leaves the nodes and
\* relationships of every other discussion as they were.
C20_DiscussionsIsolated ==
    (last.op \in {"ingest", "regroup"} /\ ~last.raised) =>
        \A d \in UUIDs \ {last.discussion_id} :
            Part(graph, d) = Part(last.before, d)

\* a comment was ingested and regrouped in one discussion while another
\* discussion held a comment of the same id, an argument of the same text
\* and a group of the same summary
C20_Witness ==
    /\ CompletedIngest
    /\ Count(last.log, "regroup") = 1
    /\ \E d \in UUIDs \ {last.discussion_id} :
          /\ \E n \in Nodes(last.before.comments), m \in Nodes(graph.comments) :
                /\ n.discussion_id = d /\ m.discussion_id = last.discussion_id
                /\ n.id = m.id
          /\ \E n \in Nodes(last.before.arguments), m \in Nodes(graph.arguments) :
                /\ n.discussion_id = d /\ m.discussion_id = last.discussion_id
                /\ n.text = m.text
          /\ \E n \in Nodes(last.before.groups), m \in Nodes(graph.groups) :
                /\ n.discussion_id = d /\ m.discussion_id = last.discussion_id
                /\ n.summary = m.summary /\ n.stance = m.stance
          /\ \E e \in last.before.has_group : e.discussion_id = d

\* the writes of the last call that were the last to their node
FinalWrites ==
    {w \in written : w.call = nops /\
        ~\E x \in written : x.call = nops /\ x.label = w.label /\ x.id = w.id
                            /\ x.at > w.at}

\* the nodes of the label of a write
NodesOf(g, label) ==
    IF label = "Comment" THEN Nodes(g.comments) ELSE Nodes(g.replies)

\* C21: after a completed ingestion the node of every comment and reply of
\* the tree, old or new, has the body, author and score the tree gave it,
\* and every node the store held is still there under its id and
\* discussion_id.
C21_FieldsRefreshed ==
    CompletedIngest =>
        /\ \A w \in FinalWrites :
              \E n \in NodesOf(graph, w.label) :
                 /\ n.id = w.id /\ n.discussion_id = last.discussion_id
                 /\ n.body = w.body /\ n.author = w.author /\ n.score = w.score
        /\ \A label \in {"Comment", "Reply"} :
              \A m \in NodesOf(last.before, label) :
                 \E n \in NodesOf(graph, label) :
                    n.id = m.id /\ n.discussion_id = m.discussion_id

\* a comment and a reply the store held were ingested again with another
\* body, author and score
C21_Witness ==
    /\ CompletedIngest
    /\ \A label \in {"Comment", "Reply"} :
          \E w \in FinalWrites, m \in NodesOf(last.before, label) :
             /\ w.label = label /\ w.id = m.id
             /\ m.discussion_id = last.discussion_id
             /\ w.body # m.body /\ w.author # m.author /\ w.score # m.score

\* the stance relationships leaving the Comment of this id
StanceEdgesOf(g, id, discussion_id) ==
    {e \in g.stance_edges : e.id = id /\ e.discussion_id = discussion_id}

\* C22: a completed ingestion leaves the stance relationships of every
\* Comment the store already held as they were, whatever the bucket the
\* comment is ingested in: none removed, none retyped, none added.
C22_StanceEdgeFixed ==
    CompletedIngest =>
        \A m \in Nodes(last.before.comments) :
            StanceEdgesOf(graph, m.id, m.discussion_id)
               = StanceEdgesOf(last.before, m.id, m.discussion_id)

\* a Comment that supports its Topic was ingested again in the AGAINST bucket
C22_Witness ==
    /\ CompletedIngest
    /\ \E w \in written :
          /\ w.call = nops /\ w.label = "Comment" /\ w.parent = <<"AGAINST">>
          /\ \E e \in StanceEdgesOf(last.before, w.id, last.discussion_id) :
                e.rel = "SUPPORTS"

\* t in s: the tokens of t stand next to one another somewhere in s
Contains(s, t) ==
    \E k \in 0..(Len(s) - Len(t)) : SubSeq(s, k + 1, k + Len(t)) = t

\* C23: the id a reply with a source id is written to holds both the id of
\* its parent comment and its own source id; the id of a reply without one
\* holds its place among the replies.
C23_ReplyIdHoldsParentAndSource ==
    \A w \in {x \in written : x.label = "Reply"} :
        IF w.src # <<>>
        THEN Contains(w.id, w.parent) /\ Contains(w.id, w.src)
        ELSE Contains(w.id, w.parent \o <<"_", IndexStr(w.place)>>)

-----------------------------------------------------------------------------
(* The parsing of a response of the grouping service, on its own *)

\* the lines a response is made of: markers with and without a summary,
\* bullets with and without blanks around them, and prose
ResponseLines ==
    {<<"Group:", " ", "g1">>, <<"Group:", " ", "g2">>, <<"Group:">>,
     <<"-", " ", "a1">>, <<" ", "-", " ", "a2", " ">>, <<"note">>}

Responses == UNION {[1..n -> ResponseLines] : n \in 1..MaxLines}

InitParse ==
    /\ driver = TRUE
    /\ graph = EmptyGraph
    /\ last \in {[op |-> "response", content |-> StripContent(r), group_map |-> <<>>] :
                    r \in Responses}
    /\ minted = [u \in URLs |-> None]
    /\ written = {}
    /\ nops = 0

\* current_group = None; group_map = {}; for line in content.splitlines(): ...
Parse ==
    /\ last.op = "response"
    /\ last' = [last EXCEPT !.op = "parsed",
                            !.group_map = ParseGroups(last.content, <<>>, <<>>)]
    /\ UNCHANGED <<driver, graph, minted, written, nops>>

NextParse == Parse

SpecParse == InitParse /\ [][NextParse]_vars

\* line.strip().startswith("Group:") and line.strip().startswith("-")
IsMarker(line) == StartsWith(Strip(line), "Group:")
IsBullet(line) == ~IsMarker(line) /\ StartsWith(Strip(line), "-")

\* the summary a marker line names, and the member a bullet line names
SummaryOf(line) == Strip(RemoveToken(line, "Group:"))
MemberOf(line) == Strip(LStripDash(Strip(line)))

\* the places of the bullets listed under the marker at place k: those
\* after it with no marker in between
ListedUnder(content, k) ==
    {j \in (k + 1)..Len(content) :
        IsBullet(content[j]) /\ \A i \in (k + 1)..j : ~IsMarker(content[i])}

\* the members the parsed map holds for a summary
ParsedMembers(group_map, summary) ==
    UNION {{group_map[e][2][m] : m \in 1..Len(group_map[e][2])} :
              e \in {x \in 1..Len(group_map) : group_map[x][1] = summary}}

\* C24: of a parsed response, every marker line has its group in the map,
\* every bullet listed under a marker is a member of that marker's group,
\* and the map holds no group and no member from anywhere else: bullets
\* before the first marker and all other lines are left out.
C24_ParsedAsListed ==
    last.op = "parsed" =>
        LET content == last.content
            group_map == last.group_map
            markers == {k \in 1..Len(content) : IsMarker(content[k])}
        IN  /\ \A k \in markers :
                  /\ \E e \in 1..Len(group_map) :
                        group_map[e][1] = SummaryOf(content[k])
                  /\ \A j \in ListedUnder(content, k) :
                        MemberOf(content[j])
                           \in ParsedMembers(group_map, SummaryOf(content[k]))
            /\ \A e \in 1..Len(group_map) :
                  /\ \E k \in markers : SummaryOf(content[k]) = group_map[e][1]
                  /\ \A m \in 1..Len(group_map[e][2]) :
                        \E k \in markers :
                           /\ SummaryOf(content[k]) = group_map[e][1]
                           /\ \E j \in ListedUnder(content, k) :
                                 MemberOf(content[j]) = group_map[e][2][m]

-----------------------------------------------------------------------------

\* how often the last call invoked the extractor for the unit of this id
Extractions(id) ==
    Cardinality({k \in 1..Len(last.log) : last.log[k] = Event("extract", id)})

\* C25: a completed ingestion invokes the extractor once for every comment
\* and reply of the tree whose node the store did not hold when it began,
\* and not at all for one whose node it held.
C25_ExtractionOnlyForNewUnits ==
    CompletedIngest =>
        \A w \in {x \in written : x.call = nops} :
            Extractions(w.id) = IF w \in NewUnits THEN 1 ELSE 0

\* a thread the store holds was ingested again with one more comment, and
\* the extractor was invoked for that comment alone
C25_Witness ==
    /\ CompletedIngest
    /\ \E w1, w2 \in {x \in written : x.call = nops /\ x.label = "Comment"} :
          /\ w1 \in NewUnits /\ w2 \notin NewUnits
          /\ \E v \in written : v.call # nops /\ v.id = w2.id
          /\ Count(last.log, "extract") = 1
          /\ Extractions(w1.id) = 1

\* the ArgumentGroup nodes by summary, stance and discussion_id
GroupKeys(g) ==
    {<<n.summary, n.stance, n.discussion_id>> : n \in Nodes(g.groups)}

\* the store after one more group_arguments_by_stance of the last call's
\* discussion, the grouping service answering as it did in the last call
Again == group_arguments_by_stance(graph, driver, last.discussion_id, last.llm, -1).g

\* C26: a regroup that follows a completed regroup of the same discussion,
\* the grouping service answering alike, leaves the ArgumentGroup nodes and
\* the HAS_GROUP relationships as the first left them; and one more regroup
\* after any completed one would leave them as they are.
C26_RegroupIdempotent ==
    /\ (last.op = "regroup" /\ last.repeat) =>
          /\ ~last.raised
          /\ GroupKeys(graph) = GroupKeys(last.before)
          /\ graph.has_group = last.before.has_group
    /\ RegroupCompleted =>
          /\ GroupKeys(Again) = GroupKeys(graph)
          /\ Again.has_group = graph.has_group

\* a discussion with groups and members was regrouped a second time
C26_Witness ==
    /\ last.op = "regroup" /\ last.repeat
    /\ \E e \in last.before.has_group : e.discussion_id = last.discussion_id
    /\ \E n \in Nodes(graph.groups) : n.discussion_id = last.discussion_id

\* C27: once every call so far has completed, the parent_comment_id of
\* every Reply node is the id of the Comment its REPLY_TO relationship
\* leads to.
C27_ParentAgreesWithEdge ==
    (last.op \in {"ingest", "regroup"} /\ ~last.raised) =>
        \A n \in Nodes(graph.replies) :
            \A e \in graph.reply_to :
                (e.id = n.id /\ e.discussion_id = n.discussion_id) =>
                    e.comment_id = n.parent_comment_id

\* C28: after a regroup that completed, every HAS_GROUP relationship joins
\* an Argument and an ArgumentGroup of one stance and one discussion.
C28_GroupsStanceHomogeneous ==
    RegroupCompleted =>
        \A e \in graph.has_group :
            \A a \in Nodes(graph.arguments) :
                (a.text = e.text /\ a.discussion_id = e.discussion_id) =>
                    /\ a.stance = e.stance
                    /\ \E n \in Nodes(graph.groups) :
                          /\ n.summary = e.summary /\ n.stance = a.stance
                          /\ n.discussion_id = a.discussion_id

-----------------------------------------------------------------------------

\* the (argument, label) pairs the last call stored: what the extraction of
\* its new units returned
Classified ==
    UNION {LET found == extract_and_classify_arguments(
                            last.llm, Get(w.body, ""), last.thread_data.post.title)
           IN  {found.result[k] : k \in 1..Len(found.result)} :
              w \in {x \in NewUnits : Extractions(x.id) = 1}}

\* C30: after a completed ingestion, every argument text the call extracted
\* has one Argument node in the discussion, of the label the call gave it,
\* whatever its label was; the other Argument nodes are as they were, and
\* every EXTRACTED_FROM relationship the store held is still there.
C30_StanceLastWriteWins ==
    CompletedIngest =>
        /\ \A p \in Classified :
              LET hit == {a \in Nodes(graph.arguments) :
                             a.text = p[1] /\ a.discussion_id = last.discussion_id}
              IN  /\ CopiesOf(graph.arguments, hit) = 1
                  /\ \A a \in hit : a.stance = p[2]
        /\ \A a \in Nodes(last.before.arguments) :
              (~\E p \in Classified :
                    p[1] = a.text /\ a.discussion_id = last.discussion_id)
                 => a \in Nodes(graph.arguments)
        /\ last.before.extracted_from \subseteq graph.extracted_from

\* an argument the store held was extracted from a new unit and its label
\* changed; it keeps the relationship to the unit it came from first
C30_Witness ==
    /\ CompletedIngest
    /\ \E a \in Nodes(last.before.arguments), b \in Nodes(graph.arguments) :
          /\ a.text = b.text /\ a.discussion_id = b.discussion_id
          /\ a.stance # b.stance
          /\ \E p \in Classified : p[1] = b.text /\ p[2] = b.stance
          /\ \E e \in last.before.extracted_from :
                e.text = a.text /\ e.discussion_id = a.discussion_id
          /\ \E e \in graph.extracted_from \ last.before.extracted_from :
                e.text = a.text /\ e.discussion_id = a.discussion_id

-----------------------------------------------------------------------------
(* Two calls of create_knowledge_graph at a time *)

\* POST /kgCreator is a synchronous handler: two requests run in two threads,
\* and every session.execute_read / execute_write is a transaction of its
\* own.  A call is at one of these places: resolve, topic, check, comment,
\* connect, argument, link, regroup, return, done.

Callers == {1, 2}

\* threads of one url, of a comment each, no replies
ConcurrentTrees ==
    {ThreadData("url1", [s \in Stances |-> IF s = "FOR" THEN <<c>> ELSE <<>>]) :
        c \in {Comment(c1, K1, <<>>), Comment(c2, K2, <<>>)}}

\* for stance, comments in classified_comments.items(): for i, comment in
\* enumerate(comments): the comments in the order the loops meet them
RECURSIVE Work(_, _)
Work(thread_data, k) ==
    IF k > Len(StanceOrder) THEN <<>>
    ELSE LET stance == StanceOrder[k]
             comments == thread_data.classified_comments[stance]
         IN  [i \in 1..Len(comments) |->
                 [stance |-> stance, i |-> i, comment |-> comments[i]]]
             \o Work(thread_data, k + 1)

\* a call that has not run a statement yet
InitConcurrent ==
    /\ driver = TRUE
    /\ graph = EmptyGraph
    /\ last \in {[op |-> "concurrent", raised |-> FALSE, calls |-> f] :
                   f \in [Callers -> {[thread_data |-> t, pc |-> "resolve",
                                       discussion_id |-> None, at |-> 1,
                                       comment_exists |-> FALSE,
                                       new_content_added |-> FALSE,
                                       arguments_with_stance |-> <<>>,
                                       ret |-> None] : t \in ConcurrentTrees}]}
    /\ minted = [u \in URLs |-> None]
    /\ written = {}
    /\ nops = 0

\* the call p moves on: its record becomes c, the store g
Moves(p, c, g) ==
    /\ last' = [last EXCEPT !.calls[p] = c]
    /\ graph' = g
    /\ UNCHANGED <<driver, minted, written, nops>>

\* the place of a call that is through with the comment at c.at
NextComment(c) ==
    IF c.at < Len(Work(c.thread_data, 1))
    THEN [c EXCEPT !.pc = "check", !.at = @ + 1]
    ELSE [c EXCEPT !.pc = "regroup"]

\* existing = session.execute_read(check_existing_discussion_by_url, thread_url)
\* discussion_id = existing if existing else str(uuid.uuid4())
ResolveStep(p) ==
    LET c == last.calls[p]
        existing == check_existing_discussion_by_url(graph, c.thread_data.post.url)
    IN  /\ c.pc = "resolve"
        /\ \E uuid \in IF existing # None THEN {NotDrawn}
                       ELSE UUIDs \ (Used(graph)
                                     \cup {last.calls[q].discussion_id : q \in Callers}) :
              Moves(p, [c EXCEPT !.pc = "topic",
                                 !.discussion_id = IF existing # None THEN existing
                                                   ELSE uuid],
                    graph)

\* session.execute_write(merge_topic, topic_title, discussion_id, thread_url)
TopicStep(p) ==
    LET c == last.calls[p]
    IN  /\ c.pc = "topic"
        /\ Moves(p, IF Work(c.thread_data, 1) = <<>> THEN [c EXCEPT !.pc = "regroup"]
                    ELSE [c EXCEPT !.pc = "check"],
                 merge_topic(graph, c.thread_data.post.title, c.discussion_id,
                             c.thread_data.post.url))

\* comment_exists = session.execute_read(check_comment_exists, ...)
CheckStep(p) ==
    LET c == last.calls[p]
        u == Work(c.thread_data, 1)[c.at]
    IN  /\ c.pc = "check"
        /\ Moves(p, [c EXCEPT !.pc = "comment",
                              !.comment_exists =
                                  check_comment_exists(graph,
                                      CommentId(u.comment.id, u.stance, u.i),
                                      c.discussion_id)],
                 graph)

\* session.execute_write(merge_comment, comment)
CommentStep(p) ==
    LET c == last.calls[p]
        u == Work(c.thread_data, 1)[c.at]
    IN  /\ c.pc = "comment"
        /\ Moves(p, IF c.comment_exists THEN NextComment(c)
                    ELSE [c EXCEPT !.pc = "connect", !.new_content_added = TRUE],
                 merge_comment(graph,
                     [id |-> CommentId(u.comment.id, u.stance, u.i),
                      discussion_id |-> c.discussion_id, body |-> u.comment.body,
                      author |-> u.comment.author, score |-> u.comment.score]))

\* session.execute_write(connect_comment_to_topic, ...), then
\* arguments_with_stance = extract_and_classify_arguments(...)
ConnectStep(p) ==
    LET c == last.calls[p]
        u == Work(c.thread_data, 1)[c.at]
        found == extract_and_classify_arguments(Faithful, Get(u.comment.body, ""),
                                                c.thread_data.post.title)
    IN  /\ c.pc = "connect"
        /\ Moves(p, IF found.result = <<>> THEN NextComment(c)
                    ELSE [c EXCEPT !.pc = "argument",
                                   !.arguments_with_stance = found.result],
                 connect_comment_to_topic(graph,
                     CommentId(u.comment.id, u.stance, u.i),
                     c.thread_data.post.title, u.stance, c.discussion_id))

\* session.execute_write(merge_argument, arg, stance_classified, discussion_id)
ArgumentStep(p) ==
    LET c == last.calls[p]
    IN  /\ c.pc = "argument"
        /\ Moves(p, [c EXCEPT !.pc = "link"],
                 merge_argument(graph, Head(c.arguments_with_stance)[1],
                                Head(c.arguments_with_stance)[2], c.discussion_id))

\* session.execute_write(connect_argument_to_comment, arg, comment["id"], ...)
LinkStep(p) ==
    LET c == last.calls[p]
        u == Work(c.thread_data, 1)[c.at]
        rest == [c EXCEPT !.arguments_with_stance = Tail(@)]
    IN  /\ c.pc = "link"
        /\ Moves(p, IF rest.arguments_with_stance = <<>> THEN NextComment(rest)
                    ELSE [rest EXCEPT !.pc = "argument"],
                 connect_argument_to_comment(graph, Head(c.arguments_with_stance)[1],
                     CommentId(u.comment.id, u.stance, u.i), c.discussion_id))

\* if new_content_added: group_arguments_by_stance(discussion_id)
RegroupStep(p) ==
    LET c == last.calls[p]
    IN  /\ c.pc = "regroup"
        /\ Moves(p, [c EXCEPT !.pc = "return"],
                 IF c.new_content_added
                 THEN group_arguments_by_stance(graph, driver, c.discussion_id,
                                                Faithful, -1).g
                 ELSE graph)

\* return {"status": "success", "discussion_id": discussion_id, ...}
ReturnStep(p) ==
    LET c == last.calls[p]
    IN  /\ c.pc = "return"
        /\ Moves(p, [c EXCEPT !.pc = "done", !.ret = c.discussion_id], graph)

NextConcurrent ==
    \E p \in Callers :
        \/ ResolveStep(p)
        \/ TopicStep(p)
        \/ CheckStep(p)
        \/ CommentStep(p)
        \/ ConnectStep(p)
        \/ ArgumentStep(p)
        \/ LinkStep(p)
        \/ RegroupStep(p)
        \/ ReturnStep(p)

SpecConcurrent == InitConcurrent /\ [][NextConcurrent]_vars

\* the discussion_id on the Topic node of the url
Owner(g, url) == check_existing_discussion_by_url(g, url)

\* C29: when two calls for one unseen url, run at the same time, have both
\* returned, every Comment, Reply and Argument node has the discussion_id
\* of the Topic node of the url, and both calls have returned that id.
C29_NoUnownedDiscussionId ==
    (last.op = "concurrent" /\ \A p \in Callers : last.calls[p].pc = "done") =>
        /\ \A n \in Nodes(graph.comments) \cup Nodes(graph.replies)
                    \cup Nodes(graph.arguments) :
              n.discussion_id = Owner(graph, "url1")
        /\ \A p \in Callers : last.calls[p].ret = Owner(graph, "url1")

====
